---- MODULE Spec2Model ----
(***************************************************************************)
(* Model of src/main.py: the five-mode controller of an ESP-01 radio       *)
(* (class App).  One action per statement group of App.run, _handle_inc,   *)
(* _handle_dec, _connect_wifi, _connect_udp, _send and _blink.  The radio  *)
(* library (adafruit_espatcontrol) and the two buttons are the             *)
(* environment: every radio call returns a truthy value ("ok"), returns a  *)
(* falsy value ("fail") or raises ("raise"); the button levels change at   *)
(* any time.                                                               *)
(***************************************************************************)
EXTENDS Integers, Sequences, FiniteSets, TLC

\* --- constants of main.py ------------------------------------------------
STATE_SLEEP == 0
STATE_IDLE  == 1
STATE_CONN  == 2
STATE_UDP   == 3
STATE_SEND  == 4

\* PINS_STATE has one output pin per state; the pins are indexed 0..4
PINS_STATE == 0 .. 4

States == {STATE_SLEEP, STATE_IDLE, STATE_CONN, STATE_UDP, STATE_SEND}

\* --- bounds --------------------------------------------------------------
\* failed attempts of one retry loop (the loops themselves are unbounded)
MaxFail == 2

VARIABLES
  state,       \* App._state
  state_pin,   \* App._state_pin[i].value
  led_pin,     \* App._led_pin.value
  inc_pin,     \* App._inc_pin.value (pull-up: FALSE = pressed)
  dec_pin,     \* App._dec_pin.value (pull-up: FALSE = pressed)
  hold,        \* the operator keeps the buttons as they are: "none",
               \* "both" (both pressed) or "inc" (only increment pressed)
  pc,          \* position of the single thread of control
  \* history of the current pass of the loop of App.run
  pass_from,   \* _state when the pass started
  pass_pins,   \* the state pins when the pass started
  reads,       \* button reads of this pass, in order: <<pin, level>>
  fired,       \* branches of the if/elif chain taken on this pass
  calls,       \* radio calls of this pass, in order: <<name, outcome>>
  blinks,      \* completed _blink() calls of this pass
  sleeps,      \* completed time.sleep(1) calls of this pass
  \* history of the whole run
  pressed_seen,  \* some pass has read a pressed button
  radio_called,  \* some radio call has been invoked
  radio,         \* what the calls made so far leave the radio in
  \* scenario driver (operator following a script) and its recorder
  script_pos,  \* script events issued so far
  pending,     \* the driver has set the buttons for the next pass
  log          \* one entry per completed pass that read a pressed button

prog  == <<state, state_pin, led_pin, pc, pass_from, pass_pins, reads,
           fired, calls, blinks, sleeps, pressed_seen, radio_called, radio>>
pins  == <<inc_pin, dec_pin, hold>>
drv   == <<script_pos, pending, log>>
vars  == <<prog, pins, drv>>

\* --- radio environment ---------------------------------------------------
\* a call returns truthy, returns falsy, or raises
Outcomes == {"ok", "fail", "raise"}

\* failed attempts among the calls of this pass
RECURSIVE NonOk(_)
NonOk(cs) == IF cs = <<>> THEN 0
             ELSE (IF cs[Len(cs)][2] = "ok" THEN 0 ELSE 1)
                  + NonOk(SubSeq(cs, 1, Len(cs) - 1))

\* a pass has read pin p pressed (low)
Pressed(p) == \E i \in 1 .. Len(reads) : reads[i] = <<p, FALSE>>
\* a pass has read pin p released (high)
Released(p) == \E i \in 1 .. Len(reads) : reads[i] = <<p, TRUE>>

Names(cs) == [i \in 1 .. Len(cs) |-> cs[i][1]]

\* the radio as the calls leave it: asleep after a deep_sleep until the
\* next hard_reset, associated after a successful connect until the next
\* soft_reset, with a socket after a successful socket_connect until the
\* next socket_disconnect
RadioAfter(r, name, o) ==
  CASE name = "deep_sleep"        -> [r EXCEPT !.asleep = TRUE]
    [] name = "hard_reset"        -> [r EXCEPT !.asleep = FALSE]
    [] name = "connect"           -> [r EXCEPT !.assoc = (@ \/ o = "ok")]
    [] name = "soft_reset"        -> [r EXCEPT !.assoc = FALSE]
    [] name = "socket_connect"    -> [r EXCEPT !.sock = (@ \/ o = "ok")]
    [] name = "socket_disconnect" -> [r EXCEPT !.sock = FALSE]
    [] OTHER                      -> r

\* self._esp.<name>(...) with outcome o, recorded
Invoke(name, o) ==
  /\ calls' = Append(calls, <<name, o>>)
  /\ radio_called' = TRUE
  /\ radio' = RadioAfter(radio, name, o)

\* --- the recorder ---------------------------------------------------------
\* the buttons of a pass, as the operator's event
EventOf(rs) == IF \E i \in 1 .. Len(rs) : rs[i] = <<"inc", FALSE>>
               THEN "inc" ELSE "dec"

\* when a pass that read a pressed button ends (control is back at the top
\* of the loop), the driver's recorder notes the event, the radio calls of
\* the pass and the state reached; it is off while no script runs
Record ==
  log' = IF /\ pc' = "run"
            /\ script_pos > 0
            /\ \E i \in 1 .. Len(reads) : reads[i][2] = FALSE
         THEN Append(log, [ev |-> EventOf(reads), calls |-> calls',
                           to |-> state'])
         ELSE log

\* --- App.__init__ --------------------------------------------------------
\* the controller starting with the radio asleep
InitialState_sleep == STATE_SLEEP

InitialState == STATE_IDLE

Init ==
  /\ state = InitialState
  /\ state_pin = [p \in PINS_STATE |-> IF p = InitialState THEN 1 ELSE 0]
  /\ led_pin = 0
  /\ inc_pin \in BOOLEAN
  /\ dec_pin \in BOOLEAN
  /\ hold = "none"
  /\ pc = "run"
  /\ pass_from = InitialState
  /\ pass_pins = [p \in PINS_STATE |-> IF p = InitialState THEN 1 ELSE 0]
  /\ reads = <<>>
  /\ fired = <<>>
  /\ calls = <<>>
  /\ blinks = 0
  /\ sleeps = 0
  /\ pressed_seen = FALSE
  /\ radio_called = FALSE
  /\ radio = [asleep |-> FALSE, assoc |-> FALSE, sock |-> FALSE]
  /\ script_pos = 0
  /\ pending = FALSE
  /\ log = <<>>

\* --- App.run -------------------------------------------------------------
\* off-by-one bound of the increment guard
IncCond_le(inc, s) == (~inc) /\ s <= STATE_SEND
\* increment guard without the bound on the state
IncCond_nostate(inc, s) == ~inc
\* no increment out of Sleep
IncCond_awake(inc, s) == (~inc) /\ s > STATE_SLEEP /\ s < STATE_SEND
\* no decrement out of Sending
DecCond_top(dec, s) == (~dec) /\ s > STATE_SLEEP /\ s < STATE_SEND
\* off-by-one bound of the decrement guard
DecCond_ge(dec, s) == (~dec) /\ s >= STATE_SLEEP
\* sending already with the socket open
SendCond_udp(s) == s >= STATE_UDP

IncCond(inc, s) == (~inc) /\ s < STATE_SEND
DecCond(dec, s) == (~dec) /\ s > STATE_SLEEP
SendCond(s)     == s = STATE_SEND

\* the send test as an "if" of its own after the button tests
AfterHandler_fall == "run_send"

\* where a handler returns to: the top of the while loop
AfterHandler == "run"

\* line 222: a new pass starts; if not self._inc_pin.value and ...
run_inc ==
  /\ pc = "run"
  /\ pass_from' = state
  /\ pass_pins' = state_pin
  /\ reads' = << <<"inc", inc_pin>> >>
  /\ calls' = <<>>
  /\ blinks' = 0
  /\ sleeps' = 0
  /\ pressed_seen' = (pressed_seen \/ ~inc_pin)
  /\ IF IncCond(inc_pin, state)
       THEN fired' = <<"inc">> /\ pc' = "inc_blink1"
       ELSE fired' = <<>> /\ pc' = "run_dec"
  /\ UNCHANGED <<state, state_pin, led_pin, radio_called, radio>>
  /\ pending' = FALSE
  /\ UNCHANGED <<pins, script_pos, log>>

\* line 224: elif not self._dec_pin.value and ...
run_dec ==
  /\ pc = "run_dec"
  /\ reads' = Append(reads, <<"dec", dec_pin>>)
  /\ pressed_seen' = (pressed_seen \/ ~dec_pin)
  /\ IF DecCond(dec_pin, state)
       THEN fired' = Append(fired, "dec") /\ pc' = "dec_blink1"
       ELSE fired' = fired /\ pc' = "run_send"
  /\ UNCHANGED <<state, state_pin, led_pin, pass_from, pass_pins, calls,
                 blinks, sleeps, radio_called, radio>>
  /\ UNCHANGED <<pins, drv>>

\* lines 226-227 and _send (163-169): elif self._state == STATE_SEND
run_send ==
  /\ pc = "run_send"
  /\ IF SendCond(state)
       THEN \E o \in Outcomes :
              /\ Invoke("socket_send", o)
              /\ fired' = Append(fired, "send")
              /\ pc' = IF o = "raise" THEN "crashed" ELSE "run"
       ELSE /\ pc' = "run"
            /\ UNCHANGED <<fired, calls, radio_called, radio>>
  /\ UNCHANGED <<state, state_pin, led_pin, pass_from, pass_pins, reads,
                 blinks, sleeps, pressed_seen>>
  /\ UNCHANGED <<pins, script_pos, pending>>
  /\ Record

\* --- the state pins ------------------------------------------------------
\* the old state's pin left high
PinOff_keep(sp, s) == sp

\* lines 188, 211: self._state_pin[self._state].value = 0
PinOff(sp, s) == [sp EXCEPT ![s] = 0]

\* lines 190, 213: self._state_pin[self._state].value = 1
PinOn(sp, s) == [sp EXCEPT ![s] = 1]

\* --- App._blink ----------------------------------------------------------
BlinkPcs == {"inc_blink1", "inc_blink2", "dec_blink1", "dec_blink2"}

\* the state changed right after the first flash, the action left out
AfterBlink_early(p) ==
  CASE p = "inc_blink1" -> "inc_pin_off"
    [] p = "inc_blink2" -> "inc_pin_off"
    [] p = "dec_blink1" -> "dec_pin_off"
    [] p = "dec_blink2" -> "dec_pin_off"

AfterBlink(p) ==
  CASE p = "inc_blink1" -> "inc_act"
    [] p = "inc_blink2" -> "inc_pin_off"
    [] p = "dec_blink1" -> "dec_act"
    [] p = "dec_blink2" -> "dec_pin_off"

\* line 116: self._led_pin.value = 1
blink_on ==
  /\ pc \in BlinkPcs
  /\ led_pin = 0
  /\ led_pin' = 1
  /\ UNCHANGED <<state, state_pin, pc, pass_from, pass_pins, reads, fired,
                 calls, blinks, sleeps, pressed_seen, radio_called, radio>>
  /\ UNCHANGED <<pins, drv>>

\* lines 117-118: time.sleep(LED_TIME); self._led_pin.value = 0
blink_off ==
  /\ pc \in BlinkPcs
  /\ led_pin = 1
  /\ led_pin' = 0
  /\ blinks' = blinks + 1
  /\ pc' = AfterBlink(pc)
  /\ UNCHANGED <<state, state_pin, pass_from, pass_pins, reads, fired,
                 calls, sleeps, pressed_seen, radio_called, radio>>
  /\ UNCHANGED <<pins, drv>>

\* --- App._handle_inc -----------------------------------------------------
\* the second flash left out
AfterAction_noblink(h) == IF h = "inc" THEN "inc_pin_off" ELSE "dec_pin_off"

\* lines 187, 210: the statement after the if/elif chain of handler h
AfterAction(h) == IF h = "inc" THEN "inc_blink2" ELSE "dec_blink2"

\* the wake-up from sleep left out
IncAction_noreset(s) ==
  CASE s = STATE_IDLE  -> "connect"
    [] s = STATE_CONN  -> "socket_connect"
    [] OTHER           -> "none"

\* lines 177-185: the radio action taken on increment from state s
IncAction(s) ==
  CASE s = STATE_SLEEP -> "hard_reset"
    [] s = STATE_IDLE  -> "connect"
    [] s = STATE_CONN  -> "socket_connect"
    [] OTHER           -> "none"

\* lines 177-185: the if/elif chain on self._state
handle_inc_act ==
  /\ pc = "inc_act"
  /\ LET a == IncAction(state) IN
       CASE a = "hard_reset" ->
              \E o \in Outcomes :
                /\ Invoke("hard_reset", o)
                /\ pc' = IF o = "raise" THEN "crashed" ELSE AfterAction("inc")
         [] a = "connect" ->
              pc' = "connect_wifi" /\ UNCHANGED <<calls, radio_called, radio>>
         [] a = "socket_connect" ->
              pc' = "connect_udp" /\ UNCHANGED <<calls, radio_called, radio>>
         [] OTHER ->
              pc' = AfterAction("inc") /\ UNCHANGED <<calls, radio_called, radio>>
  /\ UNCHANGED <<state, state_pin, led_pin, pass_from, pass_pins, reads, fired,
                 blinks, sleeps, pressed_seen>>
  /\ UNCHANGED <<pins, drv>>

\* --- App._connect_wifi ---------------------------------------------------
\* self._wifi.connect() returns no value: it succeeds or raises
ConnectOutcomes == {"ok", "raise"}

\* looking at the decrement button after a failed attempt
WifiRetry_poll == "run_dec"

\* giving up after the first failed attempt
WifiRetry_break == "inc_blink2"

\* where the except branch of _connect_wifi continues: the loop again
WifiRetry == "connect_wifi"

\* lines 130-138: one turn of the while loop
connect_wifi ==
  /\ pc = "connect_wifi"
  /\ \E o \in ConnectOutcomes :
       /\ o # "ok" => NonOk(calls) < MaxFail
       /\ Invoke("connect", o)
       /\ pc' = IF o = "ok" THEN AfterAction("inc") ELSE WifiRetry
  /\ UNCHANGED <<state, state_pin, led_pin, pass_from, pass_pins, reads, fired,
                 blinks, sleeps, pressed_seen>>
  /\ UNCHANGED <<pins, drv>>

\* --- App._connect_udp ----------------------------------------------------
\* retrying at once after a falsy return too
UdpRetry_nosleep(o) == "connect_udp"

\* lines 154-159: after a failed attempt: else: time.sleep(1); continue, or
\* except: continue
UdpRetry(o) ==
  CASE o = "fail"  -> "udp_sleep"
    [] o = "raise" -> "connect_udp"

\* lines 145-159: one turn of the while loop, up to the sleep
connect_udp ==
  /\ pc = "connect_udp"
  /\ \E o \in Outcomes :
       /\ o # "ok" => NonOk(calls) < MaxFail
       /\ Invoke("socket_connect", o)
       /\ pc' = IF o = "ok" THEN AfterAction("inc") ELSE UdpRetry(o)
  /\ UNCHANGED <<state, state_pin, led_pin, pass_from, pass_pins, reads, fired,
                 blinks, sleeps, pressed_seen>>
  /\ UNCHANGED <<pins, drv>>

\* lines 155-156: time.sleep(1); continue
udp_sleep ==
  /\ pc = "udp_sleep"
  /\ sleeps' = sleeps + 1
  /\ pc' = "connect_udp"
  /\ UNCHANGED <<state, state_pin, led_pin, pass_from, pass_pins, reads, fired,
                 calls, blinks, pressed_seen, radio_called, radio>>
  /\ UNCHANGED <<pins, drv>>

\* --- App._handle_inc, continued ------------------------------------------
\* the step of the state variable on increment
IncStep(s) == s + 1

\* line 188: self._state_pin[self._state].value = 0
handle_inc_pin_off ==
  /\ pc = "inc_pin_off"
  /\ state_pin' = PinOff(state_pin, state)
  /\ pc' = "inc_state"
  /\ UNCHANGED <<state, led_pin, pass_from, pass_pins, reads, fired, calls, blinks,
                 sleeps, pressed_seen, radio_called, radio>>
  /\ UNCHANGED <<pins, drv>>

\* line 189: self._state += 1
handle_inc_state ==
  /\ pc = "inc_state"
  /\ state' = IncStep(state)
  /\ pc' = "inc_pin_on"
  /\ UNCHANGED <<state_pin, led_pin, pass_from, pass_pins, reads, fired, calls, blinks,
                 sleeps, pressed_seen, radio_called, radio>>
  /\ UNCHANGED <<pins, drv>>

\* line 190: self._state_pin[self._state].value = 1, and return to run
handle_inc_pin_on ==
  /\ pc = "inc_pin_on"
  /\ state_pin' = PinOn(state_pin, state)
  /\ pc' = AfterHandler
  /\ UNCHANGED <<state, led_pin, pass_from, pass_pins, reads, fired, calls, blinks,
                 sleeps, pressed_seen, radio_called, radio>>
  /\ UNCHANGED <<pins, script_pos, pending>>
  /\ Record

\* --- App._handle_dec -----------------------------------------------------
\* soft reset and socket close exchanged
DecAction_swapped(s) ==
  CASE s = STATE_IDLE -> "deep_sleep"
    [] s = STATE_CONN -> "socket_disconnect"
    [] s = STATE_UDP  -> "soft_reset"
    [] OTHER          -> "none"

\* closing the socket left out
DecAction_noclose(s) ==
  CASE s = STATE_IDLE -> "deep_sleep"
    [] s = STATE_CONN -> "soft_reset"
    [] OTHER          -> "none"

\* entering deep sleep left out
DecAction_nosleep(s) ==
  CASE s = STATE_CONN -> "soft_reset"
    [] s = STATE_UDP  -> "socket_disconnect"
    [] OTHER          -> "none"

\* lines 198-208: the radio action taken on decrement from state s
DecAction(s) ==
  CASE s = STATE_IDLE -> "deep_sleep"
    [] s = STATE_CONN -> "soft_reset"
    [] s = STATE_UDP  -> "socket_disconnect"
    [] OTHER          -> "none"

\* lines 198-208: the if/elif chain on self._state
handle_dec_act ==
  /\ pc = "dec_act"
  /\ LET a == DecAction(state) IN
       IF a = "none"
         THEN pc' = AfterAction("dec") /\ UNCHANGED <<calls, radio_called, radio>>
         ELSE \E o \in Outcomes :
                /\ Invoke(a, o)
                /\ pc' = IF o = "raise" THEN "crashed" ELSE AfterAction("dec")
  /\ UNCHANGED <<state, state_pin, led_pin, pass_from, pass_pins, reads, fired,
                 blinks, sleeps, pressed_seen>>
  /\ UNCHANGED <<pins, drv>>

\* the step of the state variable on decrement
DecStep(s) == s - 1

\* line 211: self._state_pin[self._state].value = 0
handle_dec_pin_off ==
  /\ pc = "dec_pin_off"
  /\ state_pin' = PinOff(state_pin, state)
  /\ pc' = "dec_state"
  /\ UNCHANGED <<state, led_pin, pass_from, pass_pins, reads, fired, calls, blinks,
                 sleeps, pressed_seen, radio_called, radio>>
  /\ UNCHANGED <<pins, drv>>

\* line 212: self._state -= 1
handle_dec_state ==
  /\ pc = "dec_state"
  /\ state' = DecStep(state)
  /\ pc' = "dec_pin_on"
  /\ UNCHANGED <<state_pin, led_pin, pass_from, pass_pins, reads, fired, calls, blinks,
                 sleeps, pressed_seen, radio_called, radio>>
  /\ UNCHANGED <<pins, drv>>

\* line 213: self._state_pin[self._state].value = 1, and return to run
handle_dec_pin_on ==
  /\ pc = "dec_pin_on"
  /\ state_pin' = PinOn(state_pin, state)
  /\ pc' = AfterHandler
  /\ UNCHANGED <<state, led_pin, pass_from, pass_pins, reads, fired, calls, blinks,
                 sleeps, pressed_seen, radio_called, radio>>
  /\ UNCHANGED <<pins, script_pos, pending>>
  /\ Record

\* --- the operator --------------------------------------------------------
\* the buttons are pressed and released at any time
Operator ==
  /\ pc # "crashed"
  /\ hold = "none"
  /\ inc_pin' \in BOOLEAN
  /\ dec_pin' \in BOOLEAN
  /\ <<inc_pin', dec_pin'>> # <<inc_pin, dec_pin>>
  /\ UNCHANGED <<prog, drv, hold>>

Next ==
  \/ Operator
  \/ run_inc
  \/ run_dec
  \/ run_send
  \/ blink_on
  \/ blink_off
  \/ handle_inc_act
  \/ connect_wifi
  \/ connect_udp
  \/ udp_sleep
  \/ handle_inc_pin_off
  \/ handle_inc_state
  \/ handle_inc_pin_on
  \/ handle_dec_act
  \/ handle_dec_pin_off
  \/ handle_dec_state
  \/ handle_dec_pin_on

Spec == Init /\ [][Next]_vars

\* --- the operator holding buttons ----------------------------------------
\* from some moment on the operator holds both buttons, or the increment
\* button alone, and never lets go
Hold ==
  /\ pc # "crashed"
  /\ hold = "none"
  /\ \E m \in {"both", "inc"} :
       /\ hold' = m
       /\ inc_pin' = FALSE
       /\ dec_pin' = (m = "inc")
  /\ UNCHANGED <<prog, drv>>

\* the single thread of control
Program ==
  \/ run_inc
  \/ run_dec
  \/ run_send
  \/ blink_on
  \/ blink_off
  \/ handle_inc_act
  \/ connect_wifi
  \/ connect_udp
  \/ udp_sleep
  \/ handle_inc_pin_off
  \/ handle_inc_state
  \/ handle_inc_pin_on
  \/ handle_dec_act
  \/ handle_dec_pin_off
  \/ handle_dec_state
  \/ handle_dec_pin_on

NextHold ==
  \/ Operator
  \/ Hold
  \/ run_inc
  \/ run_dec
  \/ run_send
  \/ blink_on
  \/ blink_off
  \/ handle_inc_act
  \/ connect_wifi
  \/ connect_udp
  \/ udp_sleep
  \/ handle_inc_pin_off
  \/ handle_inc_state
  \/ handle_inc_pin_on
  \/ handle_dec_act
  \/ handle_dec_pin_off
  \/ handle_dec_state
  \/ handle_dec_pin_on

\* the program runs on as long as it has a next statement (the retry loops
\* fail at most MaxFail times in a row)
SpecHold == Init /\ [][NextHold]_vars /\ WF_vars(Program)

\* --- the scripted operator -----------------------------------------------
\* the button events of the sequence scenario, one per pass
Script == <<"inc", "inc", "inc", "dec", "dec", "dec", "dec", "dec">>

\* between two passes the operator either presses the button of the next
\* script event (the other released) or releases both
Driver ==
  /\ pc = "run"
  /\ ~pending
  /\ pending' = TRUE
  /\ \/ /\ script_pos < Len(Script)
        /\ script_pos' = script_pos + 1
        /\ inc_pin' = (Script[script_pos + 1] # "inc")
        /\ dec_pin' = (Script[script_pos + 1] # "dec")
     \/ /\ script_pos' = script_pos
        /\ inc_pin' = TRUE
        /\ dec_pin' = TRUE
  /\ UNCHANGED <<prog, log, hold>>

InitScenario == Init /\ inc_pin = TRUE /\ dec_pin = TRUE

NextScenario ==
  \/ Driver
  \/ pending /\ run_inc
  \/ run_dec
  \/ run_send
  \/ blink_on
  \/ blink_off
  \/ handle_inc_act
  \/ connect_wifi
  \/ connect_udp
  \/ udp_sleep
  \/ handle_inc_pin_off
  \/ handle_inc_state
  \/ handle_inc_pin_on
  \/ handle_dec_act
  \/ handle_dec_pin_off
  \/ handle_dec_state
  \/ handle_dec_pin_on

SpecScenario == InitScenario /\ [][NextScenario]_vars

\* =========================================================================
\* Properties
\* =========================================================================
OneHot(s) == [p \in PINS_STATE |-> IF p = s THEN 1 ELSE 0]

NameSet(cs) == {cs[i][1] : i \in 1 .. Len(cs)}

\* attempts up to and including the first success
UntilOk(cs) ==
  /\ Len(cs) >= 1
  /\ cs[Len(cs)][2] = "ok"
  /\ \A i \in 1 .. Len(cs) - 1 : cs[i][2] # "ok"

\* the pass has returned to the top of the loop
PassDone == pc = "run" /\ reads # <<>>

\* C1: the state is always one of the five values, and within a pass it
\* differs from the state at the start of the pass by +1, -1 or 0: no level
\* is skipped, and the state never leaves Sleep .. Sending.
C1_StateInRange ==
  /\ state \in States
  /\ pass_from \in States
  /\ (state - pass_from) \in {-1, 0, 1}

\* a pass at Sending with the increment button pressed, increment refused
C1_Witness ==
  /\ pc = "run_dec"
  /\ state = STATE_SEND
  /\ Pressed("inc")

\* C2: when _handle_inc runs from a state S below Sending, it invokes only
\* the radio action of S (hard_reset from Sleep, connect from Idle,
\* socket_connect from Connected, none from SocketOpen), and when it returns
\* the state is S+1 and that action has been invoked (hard_reset once;
\* connect and socket_connect until the first success).
C2_IncExpected(s) ==
  CASE s = STATE_SLEEP -> {"hard_reset"}
    [] s = STATE_IDLE  -> {"connect"}
    [] s = STATE_CONN  -> {"socket_connect"}
    [] s = STATE_UDP   -> {}

C2_Increment ==
  fired = <<"inc">> =>
    /\ pass_from < STATE_SEND
    /\ NameSet(calls) \subseteq C2_IncExpected(pass_from)
    /\ pc = "run" =>
         /\ state = pass_from + 1
         /\ NameSet(calls) = C2_IncExpected(pass_from)
         /\ pass_from = STATE_SLEEP => Len(calls) = 1
         /\ pass_from \in {STATE_IDLE, STATE_CONN} => UntilOk(calls)

\* an increment from Sleep has returned
C2_Witness ==
  /\ pc = "run"
  /\ fired = <<"inc">>
  /\ pass_from = STATE_SLEEP
  /\ state = STATE_IDLE

\* C3: when _handle_dec runs from a state S above Sleep, it invokes only the
\* radio action of S (deep_sleep from Idle, soft_reset from Connected,
\* socket_disconnect from SocketOpen, none from Sending), exactly once, and
\* when it returns the state is S-1.
C3_DecExpected(s) ==
  CASE s = STATE_IDLE -> <<"deep_sleep">>
    [] s = STATE_CONN -> <<"soft_reset">>
    [] s = STATE_UDP  -> <<"socket_disconnect">>
    [] s = STATE_SEND -> <<>>

C3_Decrement ==
  fired = <<"dec">> =>
    /\ pass_from > STATE_SLEEP
    /\ \/ calls = <<>>
       \/ Names(calls) = C3_DecExpected(pass_from)
    /\ pc = "run" =>
         /\ state = pass_from - 1
         /\ Names(calls) = C3_DecExpected(pass_from)

\* a decrement from Connected has returned
C3_Witness ==
  /\ pc = "run"
  /\ fired = <<"dec">>
  /\ pass_from = STATE_CONN
  /\ state = STATE_IDLE

\* C4: on a pass that starts in Sending and reads the increment button
\* pressed, _handle_inc is not run: the state does not rise, no transition
\* action is invoked (the only radio call such a pass can make is the send
\* of the third branch), and the state stays Sending unless the decrement
\* branch is taken on that pass.
C4_IncAtSending ==
  (pass_from = STATE_SEND /\ Pressed("inc")) =>
    /\ \A i \in 1 .. Len(fired) : fired[i] # "inc"
    /\ state <= STATE_SEND
    /\ NameSet(calls) \subseteq {"socket_send"}
    /\ (\A i \in 1 .. Len(fired) : fired[i] # "dec") =>
         /\ state = STATE_SEND
         /\ state_pin = pass_pins
         /\ blinks = 0

\* such a pass has ended, with the decrement button released
C4_Witness ==
  /\ PassDone
  /\ pass_from = STATE_SEND
  /\ Pressed("inc")
  /\ Released("dec")
  /\ state = STATE_SEND

\* C5: on a pass that starts in Sleep and reads the decrement button
\* pressed, nothing happens: no branch is taken, the state stays Sleep, no
\* radio call is made, the indicator does not flash and the state pins are
\* as they were.
C5_DecAtSleep ==
  (pass_from = STATE_SLEEP /\ Pressed("dec")) =>
    /\ fired = <<>>
    /\ state = STATE_SLEEP
    /\ calls = <<>>
    /\ blinks = 0
    /\ state_pin = pass_pins

\* such a pass has ended
C5_Witness ==
  /\ PassDone
  /\ pass_from = STATE_SLEEP
  /\ Pressed("dec")

\* C6: after construction, as long as no pass has read a pressed button, the
\* state is Idle, the state pins are those of Idle and no radio call has
\* been made.
C6_StartsIdle ==
  ~pressed_seen =>
    /\ state = STATE_IDLE
    /\ state # STATE_SLEEP
    /\ state_pin = OneHot(STATE_IDLE)
    /\ ~radio_called
    /\ calls = <<>>

\* the third test of a first pass, with both buttons read released
C6_Witness ==
  /\ ~pressed_seen
  /\ pc = "run_send"
  /\ Released("inc")
  /\ Released("dec")

\* the third branch of a pass was reached and is over (it returned or raised)
TickDone ==
  /\ pc \in {"run", "crashed"}
  /\ Len(reads) = 2
  /\ fired \in {<<>>, <<"send">>}

\* C7: the third branch of a pass (the tick) invokes socket_send, once, if
\* and only if the state is Sending, invokes nothing in every other state,
\* and leaves the state unchanged; socket_send is invoked nowhere else.
C7_Tick ==
  /\ TickDone =>
       /\ state = pass_from
       /\ state_pin = pass_pins
       /\ (fired = <<"send">>) <=> (pass_from = STATE_SEND)
       /\ Names(calls) = IF pass_from = STATE_SEND THEN <<"socket_send">>
                                                    ELSE <<>>
  /\ "socket_send" \in NameSet(calls) =>
       /\ fired = <<"send">>
       /\ state = STATE_SEND
       /\ Len(calls) = 1

\* a tick in Sending is over
C7_Witness ==
  /\ TickDone
  /\ pass_from = STATE_SEND
  /\ fired = <<"send">>

\* C8: on an increment from Idle only connect is invoked; the state is Idle
\* as long as no attempt has succeeded; when _handle_inc returns after N
\* failed attempts, connect has been invoked exactly N+1 times (N failures,
\* then the success) and the state is Connected.
C8_ConnectRetry ==
  (fired = <<"inc">> /\ pass_from = STATE_IDLE) =>
    /\ NameSet(calls) \subseteq {"connect"}
    /\ NonOk(calls) <= MaxFail
    /\ (calls = <<>> \/ calls[Len(calls)][2] # "ok") =>
         /\ state = STATE_IDLE
         /\ Len(calls) = NonOk(calls)
         /\ pc = "connect_wifi" \/ (pc = "inc_act" /\ calls = <<>>)
              \/ (pc = "inc_blink1" /\ calls = <<>>)
    /\ state \in {STATE_IDLE, STATE_CONN}
    /\ state = STATE_CONN => UntilOk(calls)
    /\ pc = "run" =>
         /\ state = STATE_CONN
         /\ UntilOk(calls)
         /\ Len(calls) = NonOk(calls) + 1

\* an increment from Idle has returned after MaxFail failed attempts
C8_Witness ==
  /\ pc = "run"
  /\ fired = <<"inc">>
  /\ pass_from = STATE_IDLE
  /\ NonOk(calls) = MaxFail
  /\ Len(calls) = MaxFail + 1
  /\ state = STATE_CONN

\* the button-triggered calls of a pass: all but the sends
RECURSIVE NoSend(_)
NoSend(cs) ==
  IF cs = <<>> THEN <<>>
  ELSE (IF Head(cs)[1] = "socket_send" THEN <<>> ELSE <<Head(cs)[1]>>)
       \o NoSend(Tail(cs))

\* every call of the pass succeeded at the first attempt
AllOk(cs) == \A i \in 1 .. Len(cs) : cs[i][2] = "ok"

\* the states and the calls of the sequence scenario, event by event
C9_States == <<STATE_CONN, STATE_UDP, STATE_SEND, STATE_UDP, STATE_CONN,
               STATE_IDLE, STATE_SLEEP, STATE_SLEEP>>
C9_Calls  == << <<"connect">>, <<"socket_connect">>, <<>>, <<>>,
                <<"socket_disconnect">>, <<"soft_reset">>, <<"deep_sleep">>,
                <<>> >>

\* C9: starting in Idle, as long as every radio call succeeds at its first
\* attempt, the k-th button event of inc, inc, inc, dec, dec, dec, dec, dec
\* leads to the k-th of the states Connected, SocketOpen, Sending,
\* SocketOpen, Connected, Idle, Sleep, Sleep and makes exactly the k-th of
\* the calls connect, socket_connect, none, none, socket_disconnect,
\* soft_reset, deep_sleep, none.
C9_Scenario ==
  /\ Len(log) <= Len(Script)
  /\ \A k \in 1 .. Len(log) :
       /\ log[k].ev = Script[k]
       /\ (\A j \in 1 .. k : AllOk(log[j].calls)) =>
            /\ log[k].to = C9_States[k]
            /\ NoSend(log[k].calls) = C9_Calls[k]

\* the whole script has been played, every call succeeding at once
C9_Witness ==
  /\ Len(log) = Len(Script)
  /\ \A k \in 1 .. Len(log) : AllOk(log[k].calls)
  /\ pc = "run"
  /\ state = STATE_SLEEP

\* number of sends among the calls
RECURSIVE Sends(_)
Sends(cs) ==
  IF cs = <<>> THEN 0
  ELSE (IF Head(cs)[1] = "socket_send" THEN 1 ELSE 0) + Sends(Tail(cs))

\* C10: a pass takes at most one branch of the if/elif chain: one increment
\* transition, one decrement transition or one send.  A pass that starts in
\* Sending and reads the decrement button pressed takes the decrement
\* branch, sends nothing and ends in SocketOpen, whatever the level of the
\* increment button.
C10_OneBranch ==
  /\ Len(fired) <= 1
  /\ Sends(calls) <= 1
  /\ Sends(calls) = 1 => fired = <<"send">>
  /\ (pass_from = STATE_SEND /\ Pressed("dec")) =>
       /\ fired = <<"dec">>
       /\ calls = <<>>
       /\ PassDone => state = STATE_UDP

\* such a pass has ended, with the increment button pressed as well
C10_Witness ==
  /\ PassDone
  /\ pass_from = STATE_SEND
  /\ Pressed("dec")
  /\ Pressed("inc")
  /\ state = STATE_UDP

\* C11: the program has no abort path: control never leaves the loop of
\* run, so that after a failed send, socket_disconnect, deep_sleep,
\* hard_reset or soft_reset the pass goes on as after a success and another
\* pass can be taken.
C11_NoAbort == pc # "crashed"

\* the radio action of the transition of this pass is over: there is none,
\* or its last call has returned (with success, where it is retried)
ActionDone ==
  \/ /\ fired = <<"inc">>
     /\ CASE pass_from = STATE_SLEEP ->
               Names(calls) = <<"hard_reset">> /\ calls[1][2] # "raise"
          [] pass_from \in {STATE_IDLE, STATE_CONN} -> UntilOk(calls)
          [] OTHER -> calls = <<>>
  \/ /\ fired = <<"dec">>
     /\ IF pass_from = STATE_SEND
          THEN calls = <<>>
          ELSE Len(calls) = 1 /\ calls[1][2] # "raise"

\* the positions from the first flash to the end of the radio action
BeforeDone == {"inc_blink1", "inc_act", "connect_wifi", "connect_udp",
               "udp_sleep", "dec_blink1", "dec_act", "crashed"}

\* C12: in a button-triggered transition the state variable keeps the
\* pre-transition value S as long as the radio action of S is executing,
\* every retry included, and differs from S only once the action has
\* returned; it then is S+1 (increment) or S-1 (decrement).
C12_ActionBeforeState ==
  fired \in {<<"inc">>, <<"dec">>} =>
    /\ pc \in BeforeDone => state = pass_from
    /\ ~ActionDone => state = pass_from /\ pc \in BeforeDone
    /\ state # pass_from =>
         /\ ActionDone
         /\ state = IF fired = <<"inc">> THEN pass_from + 1 ELSE pass_from - 1

\* the state has changed after a socket open that took retries
C12_Witness ==
  /\ fired = <<"inc">>
  /\ pass_from = STATE_CONN
  /\ state = STATE_UDP
  /\ NonOk(calls) >= 1
  /\ pc = "inc_pin_on"

\* the second flash of a transition has begun
SecondFlash ==
  \/ blinks = 2
  \/ blinks = 1 /\ led_pin = 1

\* C13 as stated: a button-triggered transition has exactly two flashes, the
\* first before the radio action executes and the second after the state
\* variable has changed to its new value.
C13_FlashAfterState ==
  fired \in {<<"inc">>, <<"dec">>} =>
    /\ blinks <= 2
    /\ calls # <<>> => blinks >= 1
    /\ SecondFlash => state # pass_from

\* C13 as amended: a button-triggered transition has exactly two flashes,
\* the first before the radio action executes, the second after the radio
\* action has returned and before the state variable and the state pins
\* change; a pass without transition does not flash.
C13_FlashBracket ==
  /\ fired \in {<<"inc">>, <<"dec">>} =>
       /\ blinks <= 2
       /\ calls # <<>> => blinks >= 1
       /\ blinks = 0 => pc \in {"inc_blink1", "dec_blink1"}
       /\ SecondFlash => ActionDone
       /\ (blinks = 1 /\ led_pin = 1) => state = pass_from
       /\ (state # pass_from \/ state_pin # pass_pins) => blinks = 2
       /\ PassDone => blinks = 2 /\ state # pass_from
  /\ fired \notin {<<"inc">>, <<"dec">>} => blinks = 0 /\ led_pin = 0

\* a decrement with a radio action has returned
C13_Witness ==
  /\ PassDone
  /\ fired = <<"dec">>
  /\ blinks = 2
  /\ calls # <<>>
  /\ state = pass_from - 1

\* number of calls of the pass with outcome o
RECURSIVE Count(_, _)
Count(cs, o) ==
  IF cs = <<>> THEN 0
  ELSE (IF Head(cs)[2] = o THEN 1 ELSE 0) + Count(Tail(cs), o)

\* the pass is an increment from Connected: the socket is being opened
OpeningSocket == fired = <<"inc">> /\ pass_from = STATE_CONN

\* what C14 says of the attempts themselves: only socket_connect is
\* invoked, a failed attempt is always followed by another one, and when
\* _handle_inc returns after N failures there were N+1 attempts and the
\* state is SocketOpen
C14_Attempts ==
  OpeningSocket =>
    /\ NameSet(calls) \subseteq {"socket_connect"}
    /\ (calls # <<>> /\ calls[Len(calls)][2] # "ok") =>
         pc \in {"udp_sleep", "connect_udp"} /\ state = STATE_CONN
    /\ PassDone =>
         /\ UntilOk(calls)
         /\ Len(calls) = NonOk(calls) + 1
         /\ state = STATE_UDP

\* C14 as stated: the socket open is retried until it succeeds, with the
\* delay of 1 between any two consecutive attempts, whether the failed
\* attempt returned a falsy value or raised.
C14_DelayEveryRetry ==
  /\ C14_Attempts
  /\ OpeningSocket => sleeps >= Len(calls) - 1

\* C14 as amended: the socket open is retried until it succeeds; the delay
\* of 1 follows exactly the attempts that returned a falsy value, and an
\* attempt that raised is followed by the next attempt without delay.
C14_DelayAfterFalse ==
  /\ C14_Attempts
  /\ OpeningSocket =>
       sleeps = IF pc = "udp_sleep" THEN Count(calls, "fail") - 1
                                    ELSE Count(calls, "fail")
  /\ ~OpeningSocket => sleeps = 0

\* a socket open has succeeded after one falsy return and one exception
C14_Witness ==
  /\ PassDone
  /\ OpeningSocket
  /\ Count(calls, "fail") = 1
  /\ Count(calls, "raise") = 1
  /\ sleeps = 1
  /\ state = STATE_UDP

\* a connect or a socket open of this pass has failed and none has succeeded
Retrying ==
  /\ fired # <<>>
  /\ fired[1] = "inc"
  /\ pass_from \in {STATE_IDLE, STATE_CONN}
  /\ calls # <<>>
  /\ calls[Len(calls)][2] # "ok"

\* C15: while a connect or a socket open keeps failing, control stays in
\* the retry loop and no button is read: whatever the buttons do meanwhile,
\* the only read of the pass is the one that started the transition, no
\* other branch is taken, the state and the state pins keep their
\* pre-transition values and only the retried call is invoked.
C15_NotPolled ==
  Retrying =>
    /\ pc \in {"connect_wifi", "connect_udp", "udp_sleep"}
    /\ reads = << <<"inc", FALSE>> >>
    /\ fired = <<"inc">>
    /\ state = pass_from
    /\ state_pin = pass_pins
    /\ NameSet(calls) = IF pass_from = STATE_IDLE THEN {"connect"}
                                                  ELSE {"socket_connect"}

\* during the retries of a socket open the increment button has been
\* released and the decrement button pressed
C15_Witness ==
  /\ Retrying
  /\ pass_from = STATE_CONN
  /\ NonOk(calls) = MaxFail
  /\ inc_pin = TRUE
  /\ dec_pin = FALSE

\* C16: the state changes only in response to a button: a pass that reads
\* both buttons released changes neither the state nor the state pins and
\* makes no radio call but one send when the state is Sending, and the
\* state differs from the one at the start of the pass only if the pass
\* read a pressed button.  No state is terminal: in each of the five
\* states some button levels start a transition, and a transition that
\* returns has changed the state.
C16_ButtonDriven ==
  /\ (Released("inc") /\ Released("dec")) =>
       /\ state = pass_from
       /\ state_pin = pass_pins
       /\ blinks = 0
       /\ fired \in {<<>>, <<"send">>}
       /\ Names(calls) = IF fired = <<"send">> THEN <<"socket_send">>
                                               ELSE <<>>
       /\ fired = <<"send">> => pass_from = STATE_SEND
  /\ state # pass_from => Pressed("inc") \/ Pressed("dec")
  /\ pc = "run" =>
       \E i \in BOOLEAN, d \in BOOLEAN :
         IncCond(i, state) \/ DecCond(d, state)
  /\ (PassDone /\ fired \in {<<"inc">>, <<"dec">>}) => state # pass_from

\* a pass with both buttons released has sent a datagram and ended
C16_Witness ==
  /\ PassDone
  /\ Released("inc")
  /\ Released("dec")
  /\ pass_from = STATE_SEND
  /\ Names(calls) = <<"socket_send">>

\* C17: whenever control is at the top of the loop of run (between two
\* passes, and right after construction) exactly one state pin is high: the
\* pin of the current state.
C17_OnePinHigh ==
  pc = "run" =>
    /\ state \in PINS_STATE
    /\ state_pin[state] = 1
    /\ \A p \in PINS_STATE : p # state => state_pin[p] = 0
    /\ Cardinality({p \in PINS_STATE : state_pin[p] = 1}) = 1

\* a decrement to Sleep has returned
C17_Witness ==
  /\ PassDone
  /\ fired = <<"dec">>
  /\ state = STATE_SLEEP
  /\ state_pin[STATE_SLEEP] = 1

\* at the top of the loop the radio is asleep iff the state is Sleep,
\* associated iff the state is Connected or above, and has a socket iff the
\* state is SocketOpen or above
C18_Boundary ==
  pc = "run" =>
    /\ radio.asleep <=> (state = STATE_SLEEP)
    /\ radio.assoc  <=> (state >= STATE_CONN)
    /\ radio.sock   <=> (state >= STATE_UDP)

\* a step that invokes a radio call finds the radio as the call needs it
C18_Step ==
  (calls' # calls /\ calls' # <<>>) =>
    LET n == calls'[Len(calls')][1] IN
      /\ n = "socket_send"    => radio.sock /\ radio.assoc /\ ~radio.asleep
      /\ n = "socket_connect" => radio.assoc /\ ~radio.asleep
      /\ n = "connect"        => ~radio.asleep /\ ~radio.sock
      /\ n = "deep_sleep"     => ~radio.asleep /\ ~radio.assoc /\ ~radio.sock
      /\ n = "hard_reset"     => radio.asleep
      /\ n = "soft_reset"     => radio.assoc /\ ~radio.sock
      /\ n = "socket_disconnect" => radio.sock

\* C18: the radio calls come in a consistent order: socket_send only after
\* a successful socket_connect with no socket_disconnect since,
\* socket_connect only after a successful connect with no soft_reset since,
\* deep_sleep only with the radio awake and not associated, hard_reset only
\* after a deep_sleep with no hard_reset since; and between passes the radio
\* is asleep iff state = Sleep, associated iff state >= Connected, with a
\* socket iff state >= SocketOpen.
C18_CallOrder == [][C18_Step]_vars /\ []C18_Boundary

\* the radio has been put to sleep and woken up again
C18_Witness ==
  /\ PassDone
  /\ fired = <<"inc">>
  /\ pass_from = STATE_SLEEP
  /\ Names(calls) = <<"hard_reset">>
  /\ ~radio.asleep

\* every button read of the current pass found the button pressed
AllPressed ==
  /\ reads # <<>>
  /\ \A i \in 1 .. Len(reads) : reads[i][2] = FALSE

\* both buttons are held, the current pass read them so, and the state is
\* Sending, or SocketOpen on the way down from or up to Sending
Toggling ==
  /\ hold = "both"
  /\ AllPressed
  /\ \/ state = STATE_SEND
     \/ state = STATE_UDP /\ pass_from \in {STATE_UDP, STATE_SEND}

\* with both buttons read pressed, the increment wins below Sending and the
\* decrement wins in Sending; while toggling no radio call is made
C19_Priority ==
  /\ (Pressed("inc") /\ pass_from < STATE_SEND) =>
       fired = <<"inc">> /\ Len(reads) = 1
  /\ (Pressed("inc") /\ Pressed("dec")) =>
       pass_from = STATE_SEND /\ fired = <<"dec">>
  /\ Toggling =>
       /\ calls = <<>>
       /\ fired \in {<<>>, <<"inc">>, <<"dec">>}
       /\ fired = <<>> => pc = "run_dec"
       /\ pc \notin {"run_send", "crashed"}

\* C19: when both buttons are pressed on a pass, the increment is taken in
\* every state below Sending and the decrement in Sending; with both
\* buttons held, once the controller is at Sending it goes down to
\* SocketOpen and up to Sending again and again, for ever, without any
\* radio call and without sending a datagram.
C19_BothHeld ==
  /\ []C19_Priority
  /\ [][Toggling => Toggling']_vars
  /\ (Toggling /\ state = STATE_SEND) ~> (Toggling /\ state = STATE_UDP)
  /\ (Toggling /\ state = STATE_UDP) ~> (Toggling /\ state = STATE_SEND)

\* with both buttons held the controller is back at Sending after a
\* decrement to SocketOpen
C19_Witness ==
  /\ Toggling
  /\ PassDone
  /\ pass_from = STATE_UDP
  /\ state = STATE_SEND
  /\ fired = <<"inc">>
  /\ pass_pins = OneHot(STATE_UDP)
  /\ ~radio.asleep /\ radio.sock


\* the increment button has been low, and the decrement button high, at
\* every read of the current pass
IncHeld ==
  /\ hold = "inc"
  /\ reads \in {<<<<"inc", FALSE>>>>, <<<<"inc", FALSE>>, <<"dec", TRUE>>>>}

C20_Pass ==
  IncHeld =>
    /\ pc # "crashed"
    /\ pass_from = STATE_SEND => state = STATE_SEND
    /\ (PassDone /\ pass_from < STATE_SEND) =>
         /\ state = pass_from + 1
         /\ fired = <<"inc">>
    /\ (PassDone /\ pass_from = STATE_SEND) =>
         /\ fired = <<"send">>
         /\ Len(calls) = 1
         /\ Sends(calls) = 1

\* C20: with the increment button held low and the decrement button
\* released, the loop keeps running, every pass below Sending raises the
\* state by exactly one level, Sending is eventually reached and never left,
\* and every pass in Sending sends exactly one datagram.
C20_HeldInc ==
  /\ []C20_Pass
  /\ (hold = "inc") ~> (IncHeld /\ state = STATE_SEND)
  /\ [][(IncHeld /\ state = STATE_SEND) => state' = STATE_SEND]_vars

====
